---- MODULE Spec2Model ----
(***************************************************************************)
(* X Bot Agent: the posting workflow of post_tweet.py (quota check,        *)
(* duplicate check, approval gate, create_tweet, bookkeeping), the two     *)
(* bookkeeping tables of database.py and the CLI commands of main.py.      *)
(*                                                                         *)
(* Texts are sequences of one-character strings, so that len(), strip(),   *)
(* lower() and slicing are computed as Python computes them.               *)
(***************************************************************************)
EXTENDS Integers, Sequences, FiniteSets, Bags, TLC

(***************************************************************************)
(* Bounds of the model.                                                    *)
(***************************************************************************)
\* tweets on the platform after which no further call is started
MaxSent == 3

(***************************************************************************)
(* Configuration (config.py).  Both limits are read from the environment;  *)
(* the model runs with RATE_LIMIT_MAX=2 and RATE_LIMIT_THRESHOLD=1 set in  *)
(* the environment so that the warning band and the ceiling are reached.   *)
(***************************************************************************)
RATE_LIMIT_THRESHOLD == 1
RATE_LIMIT_MAX == 2
\* the platform's length limit, post_tweet.py lines 36 and 65
TweetLimit == 280
\* the slice kept before the "..." suffix, post_tweet.py line 37
TruncateKeep == 277

\* the calendar months the clock runs through
Months == {1, 2}
\* the runners; Spec runs the first one alone
Procs == {1, 2}
SeqProcs == {1}

(***************************************************************************)
(* Python string helpers.                                                  *)
(***************************************************************************)
Whitespace == {" ", "\n", "\t"}
Quotes == {"\"", "'"}

Rep(c, n) == [i \in 1..n |-> c]

\* a wrapping read from the right end
Mirror(s) == [i \in 1..Len(s) |-> s[Len(s) + 1 - i]]

RECURSIVE LStrip(_, _)
LStrip(s, chars) ==
    IF s = <<>> \/ Head(s) \notin chars THEN s ELSE LStrip(Tail(s), chars)

RECURSIVE RStrip(_, _)
RStrip(s, chars) ==
    IF s = <<>> \/ s[Len(s)] \notin chars THEN s
    ELSE RStrip(SubSeq(s, 1, Len(s) - 1), chars)

\* str.strip(chars): drop the leading and trailing characters that are in chars
StripChars(s, chars) == RStrip(LStrip(s, chars), chars)

\* str.strip()
strip(s) == StripChars(s, Whitespace)

LowerChar(c) ==
    CASE c = "Y" -> "y"
      [] c = "N" -> "n"
      [] c = "E" -> "e"
      [] c = "S" -> "s"
      [] OTHER -> c

\* str.lower()
lower(s) == [i \in 1..Len(s) |-> LowerChar(s[i])]

(***************************************************************************)
(* generate_tweet (post_tweet.py 16-45).  The AI outcome is either a        *)
(* failure (missing key, API exception) or a response text.                *)
(***************************************************************************)
None == [none |-> TRUE, text |-> <<>>]
Some(t) == [none |-> FALSE, text |-> t]
AIFailure == [failed |-> TRUE, text |-> <<>>]
AIText(t) == [failed |-> FALSE, text |-> t]

\* lines 36-37 with the slice taken at the limit itself
Truncate_AtLimit(t) ==
    IF Len(t) > TweetLimit
    THEN SubSeq(t, 1, TweetLimit) \o <<".", ".", ".">>
    ELSE t

\* line 36-37: truncate if too long
Truncate(t) ==
    IF Len(t) > TweetLimit
    THEN SubSeq(t, 1, TruncateKeep) \o <<".", ".", ".">>
    ELSE t

generate_tweet(ai) ==
    IF ai.failed THEN None
    ELSE IF ai.text = <<>> THEN None
    ELSE Some(Truncate(StripChars(strip(ai.text), Quotes)))

\* Python truthiness of the returned value: `if not generated`
Falsy(g) == g.none \/ g.text = <<>>

(***************************************************************************)
(* database.py: the two tables as partial functions.                       *)
(*   post_counts   : month -> count        (month UNIQUE)                  *)
(*   posted_tweets : content_hash -> tweet_id  (content_hash UNIQUE)       *)
(***************************************************************************)
\* hashlib.md5(content.encode()).hexdigest(): a digest of the text; MD5 is
\* collision-free on the texts of the model
get_content_hash(content) == <<"md5">> \o content

\* SELECT count FROM post_counts WHERE month=?  (lines 87-89)
get_post_count(counts, m) == IF m \in DOMAIN counts THEN counts[m] ELSE 0

\* the upsert written as INSERT OR REPLACE ... VALUES (?, 1)
increment_post_count_Replace(counts, m) ==
    [x \in DOMAIN counts \cup {m} |-> IF x = m THEN 1 ELSE counts[x]]

\* INSERT ... VALUES (?, 1) ON CONFLICT(month) DO UPDATE SET count = count + 1
increment_post_count(counts, m) ==
    IF m \in DOMAIN counts
    THEN [counts EXCEPT ![m] = @ + 1]
    ELSE [x \in DOMAIN counts \cup {m} |-> IF x = m THEN 1 ELSE counts[x]]

\* the lookup made with the text in the place of its digest
has_posted_before_ByText(posted, content) == content \in DOMAIN posted

\* SELECT 1 FROM posted_tweets WHERE content_hash=?
has_posted_before(posted, content) == get_content_hash(content) \in DOMAIN posted

\* the insertion made with INSERT OR REPLACE: the last id wins
record_posted_tweet_Replace(posted, content, id) ==
    LET h == get_content_hash(content)
    IN  [x \in DOMAIN posted \cup {h} |-> IF x = h THEN id ELSE posted[x]]

\* INSERT OR IGNORE INTO posted_tweets (content_hash, tweet_id)
record_posted_tweet(posted, content, id) ==
    LET h == get_content_hash(content)
    IN  IF h \in DOMAIN posted THEN posted
        ELSE [x \in DOMAIN posted \cup {h} |-> IF x = h THEN id ELSE posted[x]]

\* SELECT 1 FROM processed_mentions WHERE tweet_id=?
has_processed_mention(mentions, id) == id \in DOMAIN mentions

\* INSERT OR IGNORE INTO processed_mentions (tweet_id, author_id, author_username)
mark_mention_processed(mentions, id, author_id, author_username) ==
    IF id \in DOMAIN mentions THEN mentions
    ELSE [x \in DOMAIN mentions \cup {id} |->
            IF x = id THEN [author_id |-> author_id, author_username |-> author_username]
            ELSE mentions[x]]

\* SELECT 1 FROM retweet_log WHERE original_tweet_id=?
has_retweeted(retweets, id) == id \in DOMAIN retweets

\* INSERT OR IGNORE INTO retweet_log (original_tweet_id, is_quote_retweet)
record_retweet(retweets, id, is_quote) ==
    IF id \in DOMAIN retweets THEN retweets
    ELSE [x \in DOMAIN retweets \cup {id} |-> IF x = id THEN is_quote ELSE retweets[x]]

EmptyTable == [x \in {} |-> 0]


(***************************************************************************)
(* Inputs.                                                                 *)
(***************************************************************************)
Hi == <<"h", "i">>
Yo == <<"y", "o">>

\* texts handed to post_tweet directly: empty, blank, an ordinary text, one
\* of exactly 280 characters and one of 281
Messages ==
    { <<>>, <<" ", " ">>, Hi, Rep("a", TweetLimit), Rep("a", TweetLimit + 1) }

\* what the generative API answers to a prompt
AIOutcomes ==
    { AIFailure,
      AIText(<<"\"", "\"">>),
      AIText(<<" ", "\"", "h", "i", "\"", "\n">>) }

\* the answers generate_tweet is examined on: every wrapping of a body of
\* each length around the limit
GenWraps == { <<>>, <<" ">>, <<"\"">>, <<"'", "\n">> }
GenLengths == { 0, 1, TruncateKeep - 1, TruncateKeep, TruncateKeep + 1,
                TweetLimit - 1, TweetLimit, TweetLimit + 1, TweetLimit + 2,
                TweetLimit + 20 }
GenInputs ==
    { AIFailure }
    \cup { AIText(pre \o Rep("b", n) \o Mirror(post)) :
             pre \in GenWraps, post \in GenWraps, n \in GenLengths }

\* what the user types at the approval prompt
Answers ==
    { <<"y">>, <<" ", "Y", "\n">>, <<"n">>, <<"y", "e", "s">> }

\* the fixed order of the steps of one post_tweet call
StepOrder ==
    << "validate", "quota", "duplicate", "approval", "create_tweet",
       "increment_post_count", "record_posted_tweet" >>

(***************************************************************************)
(* State.                                                                  *)
(***************************************************************************)
VARIABLES
    month,            \* the calendar month time.strftime("%Y-%m") returns now
    post_counts,      \* table post_counts of bot.db
    posted_tweets,    \* table posted_tweets of bot.db
    timeline,         \* the platform: the bag of tweets that reached it; acked
                      \* tells that create_tweet handed the tweet's id back
    pc,               \* where each runner is inside its call
    command,          \* "post", "copilot" or "direct" (post_tweet called directly)
    auto,             \* args.auto of the post command
    ai_response,      \* what the generative API answered to the command
    generated,        \* what generate_tweet returned to the command
    message,          \* post_tweet's message
    require_approval, \* post_tweet's require_approval
    current_count,    \* post_tweet's current_count
    warned,           \* the "approaching limit" warning was printed
    prompted,         \* the preview was shown and input() was called
    answer,           \* what input() returned
    tweet_id,         \* response.data['id']
    result,           \* what post_tweet returned: "pending", "None", "response"
    why,              \* why the call ended as it did
    steps,            \* the steps the call has run, in order
    transmitted,      \* tweets this call transmitted
    inc_ok,           \* what increment_post_count returned
    rec_ok,           \* what record_posted_tweet returned
    month_at_call,    \* the month when the call started
    counts_at_call,   \* post_counts when the call started
    posted_at_call,   \* posted_tweets when the call started
    processed_mentions, \* table processed_mentions of bot.db
    retweet_log,      \* table retweet_log of bot.db
    db_call           \* the last call made to a function of database.py from
                      \* outside post_tweet: its name, arguments and return value

db == <<post_counts, posted_tweets>>
dbapi == <<processed_mentions, retweet_log, db_call>>
locals == <<command, auto, ai_response, generated, message, require_approval, current_count, warned,
            prompted, answer, tweet_id, result, why, steps, transmitted,
            inc_ok, rec_ok, month_at_call, counts_at_call, posted_at_call>>
vars == <<month, post_counts, posted_tweets, timeline, pc, locals, dbapi>>

NoAnswer == <<"<", "n", "o", "n", "e", ">">>
NoCall == [fn |-> "-", key |-> <<>>, val |-> <<>>, returned |-> "-"]

Init ==
    /\ month = 1
    /\ post_counts = EmptyTable
    /\ posted_tweets = EmptyTable
    /\ timeline = EmptyBag
    /\ pc = [p \in Procs |-> "idle"]
    /\ command = [p \in Procs |-> "direct"]
    /\ auto = [p \in Procs |-> FALSE]
    /\ ai_response = [p \in Procs |-> AIFailure]
    /\ generated = [p \in Procs |-> None]
    /\ message = [p \in Procs |-> <<>>]
    /\ require_approval = [p \in Procs |-> TRUE]
    /\ current_count = [p \in Procs |-> 0]
    /\ warned = [p \in Procs |-> FALSE]
    /\ prompted = [p \in Procs |-> FALSE]
    /\ answer = [p \in Procs |-> NoAnswer]
    /\ tweet_id = [p \in Procs |-> 0]
    /\ result = [p \in Procs |-> "pending"]
    /\ why = [p \in Procs |-> "-"]
    /\ steps = [p \in Procs |-> <<>>]
    /\ transmitted = [p \in Procs |-> 0]
    /\ inc_ok = [p \in Procs |-> "-"]
    /\ rec_ok = [p \in Procs |-> "-"]
    /\ month_at_call = [p \in Procs |-> 1]
    /\ counts_at_call = [p \in Procs |-> EmptyTable]
    /\ posted_at_call = [p \in Procs |-> EmptyTable]
    /\ processed_mentions = EmptyTable
    /\ retweet_log = EmptyTable
    /\ db_call = NoCall

(***************************************************************************)
(* The clock: a month ends.  get_current_month() reads the clock each time *)
(* it is called, so the month may change at any point of a call.           *)
(***************************************************************************)
Tick ==
    /\ month + 1 \in Months
    /\ month' = month + 1
    /\ UNCHANGED <<post_counts, posted_tweets, timeline, pc, locals, dbapi>>

(***************************************************************************)
(* A command starts: post_tweet(msg, ra) is entered at label "validate",   *)
(* or the command ends at once (label "exit") because generation failed.   *)
(***************************************************************************)
Start(p, cmd, au, ai, gen, msg, ra, label) ==
    /\ pc[p] \in {"idle", "returned", "exit"}
    /\ BagCardinality(timeline) < MaxSent
    /\ pc' = [pc EXCEPT ![p] = label]
    /\ command' = [command EXCEPT ![p] = cmd]
    /\ auto' = [auto EXCEPT ![p] = au]
    /\ ai_response' = [ai_response EXCEPT ![p] = ai]
    /\ generated' = [generated EXCEPT ![p] = gen]
    /\ message' = [message EXCEPT ![p] = msg]
    /\ require_approval' = [require_approval EXCEPT ![p] = ra]
    /\ current_count' = [current_count EXCEPT ![p] = 0]
    /\ warned' = [warned EXCEPT ![p] = FALSE]
    /\ prompted' = [prompted EXCEPT ![p] = FALSE]
    /\ answer' = [answer EXCEPT ![p] = NoAnswer]
    /\ tweet_id' = [tweet_id EXCEPT ![p] = 0]
    /\ result' = [result EXCEPT ![p] = "pending"]
    /\ why' = [why EXCEPT ![p] = "-"]
    /\ steps' = [steps EXCEPT ![p] = <<>>]
    /\ transmitted' = [transmitted EXCEPT ![p] = 0]
    /\ inc_ok' = [inc_ok EXCEPT ![p] = "-"]
    /\ rec_ok' = [rec_ok EXCEPT ![p] = "-"]
    /\ month_at_call' = [month_at_call EXCEPT ![p] = month]
    /\ counts_at_call' = [counts_at_call EXCEPT ![p] = post_counts]
    /\ posted_at_call' = [posted_at_call EXCEPT ![p] = posted_tweets]
    /\ UNCHANGED <<month, post_counts, posted_tweets, timeline, dbapi>>

\* post_tweet called directly (post_tweet.py 48), any message, any flag
CallPostTweet(p) ==
    \E msg \in Messages, ra \in BOOLEAN :
        Start(p, "direct", FALSE, AIFailure, None, msg, ra, "validate")

\* main.py cmd_post (30-44): generate, then post with require_approval = not args.auto
CmdPostOn(p, ai, au) ==
    LET gen == generate_tweet(ai)
    IN  IF Falsy(gen)
        THEN Start(p, "post", au, ai, gen, <<>>, TRUE, "exit")
        ELSE Start(p, "post", au, ai, gen, gen.text, ~au, "validate")

cmd_post(p) == \E ai \in AIOutcomes, au \in BOOLEAN : CmdPostOn(p, ai, au)

\* main.py cmd_copilot (47-51) and copilot_mode (post_tweet.py 129-141)
CopilotOn(p, ai) ==
    LET gen == generate_tweet(ai)
    IN  IF Falsy(gen)
        THEN Start(p, "copilot", FALSE, ai, gen, <<>>, TRUE, "exit")
        ELSE Start(p, "copilot", FALSE, ai, gen, gen.text, TRUE, "validate")

cmd_copilot(p) == \E ai \in AIOutcomes : CopilotOn(p, ai)

(***************************************************************************)
(* post_tweet (post_tweet.py 48-126), one action per step of the call.     *)
(* Every exception inside the try block ends in the handler of lines       *)
(* 112-126, which returns None.                                            *)
(***************************************************************************)
\* what stays fixed during a call
callvars == <<command, auto, ai_response, generated, message, require_approval,
              month_at_call, counts_at_call, posted_at_call>>

Return(p, res, reason) ==
    /\ pc' = [pc EXCEPT ![p] = "returned"]
    /\ result' = [result EXCEPT ![p] = res]
    /\ why' = [why EXCEPT ![p] = reason]

Goto(p, label) ==
    /\ pc' = [pc EXCEPT ![p] = label]
    /\ UNCHANGED <<result, why>>

Ran(p, name) == steps' = [steps EXCEPT ![p] = Append(@, name)]

\* lines 60-67: validate message
Validate(p) ==
    /\ pc[p] = "validate"
    /\ Ran(p, "validate")
    /\ IF message[p] = <<>> \/ Len(strip(message[p])) = 0
       THEN Return(p, "None", "empty")
       ELSE IF Len(message[p]) > TweetLimit
            THEN Return(p, "None", "too_long")
            ELSE Goto(p, "quota")
    /\ UNCHANGED <<month, db, timeline, callvars, dbapi, current_count, warned,
                   prompted, answer, tweet_id, transmitted, inc_ok, rec_ok>>

\* line 71 with the warning threshold taken for the ceiling
LimitReached_AtThreshold(count) == count >= RATE_LIMIT_THRESHOLD

\* line 71: the ceiling
LimitReached(count) == count >= RATE_LIMIT_MAX

\* line 74: the warning threshold
NearLimit(count) == count >= RATE_LIMIT_THRESHOLD

\* lines 69-75: rate limit check; get_post_count raises on a database error
RateLimitCheck(p) ==
    /\ pc[p] = "quota"
    /\ Ran(p, "quota")
    /\ \E read \in {"ok", "error"} :
         IF read = "error"
         THEN /\ Return(p, "None", "exception")
              /\ UNCHANGED <<current_count, warned>>
         ELSE LET count == get_post_count(post_counts, month)
              IN  /\ current_count' = [current_count EXCEPT ![p] = count]
                  /\ IF LimitReached(count)
                     THEN /\ Return(p, "None", "quota")
                          /\ UNCHANGED warned
                     ELSE /\ warned' = [warned EXCEPT ![p] = NearLimit(count)]
                          /\ Goto(p, "duplicate")
    /\ UNCHANGED <<month, db, timeline, callvars, dbapi,
                   prompted, answer, tweet_id, transmitted, inc_ok, rec_ok>>

\* lines 77-80: duplicate check; has_posted_before raises on a database error
DuplicateCheck(p) ==
    /\ pc[p] = "duplicate"
    /\ Ran(p, "duplicate")
    /\ \E read \in {"ok", "error"} :
         IF read = "error"
         THEN Return(p, "None", "exception")
         ELSE IF has_posted_before(posted_tweets, message[p])
              THEN Return(p, "None", "duplicate")
              ELSE Goto(p, IF require_approval[p] THEN "approval" ELSE "create_tweet")
    /\ UNCHANGED <<month, db, timeline, callvars, dbapi, current_count, warned,
                   prompted, answer, tweet_id, transmitted, inc_ok, rec_ok>>

\* line 93: input(...).strip().lower()
Normalise(typed) == lower(strip(typed))

\* line 94 with the test `response[:1] == 'y'` in the place of `response == 'y'`
Approved_StartsWithY(response) == response # <<>> /\ response[1] = "y"

\* line 94: the tweet goes out only on response == 'y'
Approved(response) == response = <<"y">>

\* lines 82-96: human approval; input() raises EOFError when stdin is closed
HumanApproval(p) ==
    /\ pc[p] = "approval"
    /\ Ran(p, "approval")
    /\ prompted' = [prompted EXCEPT ![p] = TRUE]
    /\ \/ /\ Return(p, "None", "exception")
          /\ UNCHANGED answer
       \/ \E typed \in Answers :
            /\ answer' = [answer EXCEPT ![p] = typed]
            /\ IF ~Approved(Normalise(typed))
               THEN Return(p, "None", "declined")
               ELSE Goto(p, "create_tweet")
    /\ UNCHANGED <<month, db, timeline, callvars, dbapi, current_count, warned,
                   tweet_id, transmitted, inc_ok, rec_ok>>

\* lines 98-104: post the tweet.  "error": get_x_client or create_tweet raised
\* and nothing reached the platform; "ok": the tweet was transmitted and the
\* response carries its id; "lost": the tweet reached the platform and lines
\* 100-101 raised all the same (the platform's answer was lost on the way
\* back, or it carries no data id), so the call never learns the id.
CreateTweet(p) ==
    /\ pc[p] = "create_tweet"
    /\ Ran(p, "create_tweet")
    /\ \E outcome \in {"error", "ok", "lost"} :
         IF outcome = "error"
         THEN /\ Return(p, "None", "exception")
              /\ UNCHANGED <<timeline, tweet_id, transmitted>>
         ELSE /\ timeline' = timeline (+) SetToBag({[text |-> message[p], month |-> month,
                                                     acked |-> (outcome = "ok")]})
              /\ transmitted' = [transmitted EXCEPT ![p] = @ + 1]
              /\ IF outcome = "lost"
                 THEN /\ Return(p, "None", "exception")
                      /\ UNCHANGED tweet_id
                 ELSE /\ tweet_id' = [tweet_id EXCEPT ![p] = BagCardinality(timeline) + 1]
                      /\ Goto(p, "increment_post_count")
    /\ UNCHANGED <<month, db, callvars, dbapi, current_count, warned,
                   prompted, answer, inc_ok, rec_ok>>

\* line 107 and database.py 91-105: a database error is logged and the
\* function returns False, which post_tweet does not look at
IncrementPostCount(p) ==
    /\ pc[p] = "increment_post_count"
    /\ Ran(p, "increment_post_count")
    /\ \E write \in {"ok", "error"} :
         IF write = "ok"
         THEN /\ post_counts' = increment_post_count(post_counts, month)
              /\ inc_ok' = [inc_ok EXCEPT ![p] = "True"]
         ELSE /\ UNCHANGED post_counts
              /\ inc_ok' = [inc_ok EXCEPT ![p] = "False"]
    /\ Goto(p, "record_posted_tweet")
    /\ UNCHANGED <<month, posted_tweets, timeline, callvars, dbapi, current_count, warned,
                   prompted, answer, tweet_id, transmitted, rec_ok>>

\* lines 108-110 and database.py 124-138: as above, then return response
RecordPostedTweet(p) ==
    /\ pc[p] = "record_posted_tweet"
    /\ Ran(p, "record_posted_tweet")
    /\ \E write \in {"ok", "error"} :
         IF write = "ok"
         THEN /\ posted_tweets' = record_posted_tweet(posted_tweets, message[p], tweet_id[p])
              /\ rec_ok' = [rec_ok EXCEPT ![p] = "True"]
         ELSE /\ UNCHANGED posted_tweets
              /\ rec_ok' = [rec_ok EXCEPT ![p] = "False"]
    /\ Return(p, "response", "posted")
    /\ UNCHANGED <<month, post_counts, timeline, callvars, dbapi, current_count, warned,
                   prompted, answer, tweet_id, transmitted, inc_ok>>

(***************************************************************************)
(* One runner: the calls come one after the other.                         *)
(***************************************************************************)
Next ==
    \/ Tick
    \/ \E p \in SeqProcs :
         \/ CallPostTweet(p)
         \/ cmd_post(p)
         \/ cmd_copilot(p)
         \/ Validate(p)
         \/ RateLimitCheck(p)
         \/ DuplicateCheck(p)
         \/ HumanApproval(p)
         \/ CreateTweet(p)
         \/ IncrementPostCount(p)
         \/ RecordPostedTweet(p)

Spec == Init /\ [][Next]_vars

(***************************************************************************)
(* generate_tweet on its own: the two commands run on each answer of       *)
(* GenInputs, up to the validation of post_tweet.                          *)
(***************************************************************************)
gen_cmd_post(p) == \E ai \in GenInputs, au \in BOOLEAN : CmdPostOn(p, ai, au)

gen_cmd_copilot(p) == \E ai \in GenInputs : CopilotOn(p, ai)

NextGen ==
    \E p \in SeqProcs :
        \/ gen_cmd_post(p)
        \/ gen_cmd_copilot(p)
        \/ Validate(p)

SpecGen == Init /\ [][NextGen]_vars

(***************************************************************************)
(* Two CLI processes at once on the same bot.db, each running              *)
(* `post --auto`: every step of post_tweet opens a connection of its own   *)
(* (get_db_connection) and runs one statement in it, so the steps of the   *)
(* two calls interleave freely and nothing is held between a check and the *)
(* write that follows it.  The processes run within one month.             *)
(***************************************************************************)
\* the generative API may hand the same text to both
ConcAnswers == { AIText(Hi), AIText(Yo) }

conc_cmd_post(p) == \E ai \in ConcAnswers : CmdPostOn(p, ai, TRUE)

NextConc ==
    \E p \in Procs :
         \/ conc_cmd_post(p)
         \/ Validate(p)
         \/ RateLimitCheck(p)
         \/ DuplicateCheck(p)
         \/ CreateTweet(p)
         \/ IncrementPostCount(p)
         \/ RecordPostedTweet(p)

SpecConc == Init /\ [][NextConc]_vars

(***************************************************************************)
(* The functions of database.py called on their own, in any order and with *)
(* any arguments, each call in a connection of its own.  The writers catch *)
(* sqlite3.Error and return False; the readers let it through.             *)
(***************************************************************************)
DbContents == { Hi, Yo }
DbTweetIds == { 1, 2 }
MentionIds == { "m1", "m2" }
AuthorIds == { "a1", "a2" }
AuthorNames == { "alice" }
RetweetIds == { "r1", "r2" }

Called(fn, key, val, ret) ==
    db_call' = [fn |-> fn, key |-> key, val |-> val, returned |-> ret]

\* what a reader returns: the row's presence, or the error goes up
Lookup(read, found) ==
    IF read = "error" THEN "raised" ELSE IF found THEN "True" ELSE "False"

\* database.py 36-73: CREATE TABLE IF NOT EXISTS leaves existing tables alone
CallInitDb ==
    /\ \E run \in {"ok", "error"} :
         Called("init_db", <<>>, <<>>, IF run = "ok" THEN "None" ELSE "raised")
    /\ UNCHANGED <<month, db, timeline, pc, locals, processed_mentions, retweet_log>>

\* database.py 91-105
CallIncrementPostCount ==
    /\ get_post_count(post_counts, month) < MaxSent
    /\ \E write \in {"ok", "error"} :
         IF write = "ok"
         THEN /\ post_counts' = increment_post_count(post_counts, month)
              /\ Called("increment_post_count", <<>>, <<>>, "True")
         ELSE /\ UNCHANGED post_counts
              /\ Called("increment_post_count", <<>>, <<>>, "False")
    /\ UNCHANGED <<month, posted_tweets, timeline, pc, locals, processed_mentions, retweet_log>>

\* database.py 116-122
CallHasPostedBefore ==
    /\ \E c \in DbContents, read \in {"ok", "error"} :
         Called("has_posted_before", c, <<>>,
                Lookup(read, has_posted_before(posted_tweets, c)))
    /\ UNCHANGED <<month, db, timeline, pc, locals, processed_mentions, retweet_log>>

\* database.py 124-138
CallRecordPostedTweet ==
    /\ \E c \in DbContents, id \in DbTweetIds, write \in {"ok", "error"} :
         IF write = "ok"
         THEN /\ posted_tweets' = record_posted_tweet(posted_tweets, c, id)
              /\ Called("record_posted_tweet", c, id, "True")
         ELSE /\ UNCHANGED posted_tweets
              /\ Called("record_posted_tweet", c, id, "False")
    /\ UNCHANGED <<month, post_counts, timeline, pc, locals, processed_mentions, retweet_log>>

\* database.py 144-149
CallHasProcessedMention ==
    /\ \E id \in MentionIds, read \in {"ok", "error"} :
         Called("has_processed_mention", id, <<>>,
                Lookup(read, has_processed_mention(processed_mentions, id)))
    /\ UNCHANGED <<month, db, timeline, pc, locals, processed_mentions, retweet_log>>

\* database.py 151-164
CallMarkMentionProcessed ==
    /\ \E id \in MentionIds, aid \in AuthorIds, name \in AuthorNames,
          write \in {"ok", "error"} :
         LET row == [author_id |-> aid, author_username |-> name]
         IN  IF write = "ok"
             THEN /\ processed_mentions' =
                       mark_mention_processed(processed_mentions, id, aid, name)
                  /\ Called("mark_mention_processed", id, row, "True")
             ELSE /\ UNCHANGED processed_mentions
                  /\ Called("mark_mention_processed", id, row, "False")
    /\ UNCHANGED <<month, db, timeline, pc, locals, retweet_log>>

\* database.py 170-175
CallHasRetweeted ==
    /\ \E id \in RetweetIds, read \in {"ok", "error"} :
         Called("has_retweeted", id, <<>>,
                Lookup(read, has_retweeted(retweet_log, id)))
    /\ UNCHANGED <<month, db, timeline, pc, locals, processed_mentions, retweet_log>>

\* database.py 177-190
CallRecordRetweet ==
    /\ \E id \in RetweetIds, is_quote \in BOOLEAN, write \in {"ok", "error"} :
         IF write = "ok"
         THEN /\ retweet_log' = record_retweet(retweet_log, id, is_quote)
              /\ Called("record_retweet", id, is_quote, "True")
         ELSE /\ UNCHANGED retweet_log
              /\ Called("record_retweet", id, is_quote, "False")
    /\ UNCHANGED <<month, db, timeline, pc, locals, processed_mentions>>

NextDb ==
    \/ CallInitDb
    \/ CallIncrementPostCount
    \/ CallHasPostedBefore
    \/ CallRecordPostedTweet
    \/ CallHasProcessedMention
    \/ CallMarkMentionProcessed
    \/ CallHasRetweeted
    \/ CallRecordRetweet

SpecDb == Init /\ [][NextDb]_vars

(***************************************************************************)
(* What the platform holds.                                                *)
(***************************************************************************)
RECURSIVE CopiesSum(_)
CopiesSum(S) ==
    IF S = {} THEN 0
    ELSE LET e == CHOOSE x \in S : TRUE
         IN  CopiesIn(e, timeline) + CopiesSum(S \ {e})

\* tweets create_tweet successfully transmitted during month m
SentInMonth(m) == CopiesSum({e \in BagToSet(timeline) : e.month = m /\ e.acked})

\* times create_tweet successfully transmitted the text t
SentOfText(t) == CopiesSum({e \in BagToSet(timeline) : e.text = t /\ e.acked})

\* the steps a runner's call has run
StepsRun(p) == {steps[p][i] : i \in 1..Len(steps[p])}

\* no call is under way
Quiescent == \A p \in Procs : pc[p] \in {"idle", "returned", "exit"}

(***************************************************************************)
(* C1.  Monthly quota: in no month are more than RATE_LIMIT_MAX tweets     *)
(* transmitted, whatever the messages, the answers and the outcomes of the *)
(* platform and of the database.                                           *)
(***************************************************************************)
C1_MonthlyQuota == \A m \in Months : SentInMonth(m) <= RATE_LIMIT_MAX

(***************************************************************************)
(* C2.  Tally accuracy: once the calls are over, the count stored for each *)
(* month (0 without a row) is the number of tweets transmitted in it.      *)
(***************************************************************************)
C2_TallyAccuracy ==
    Quiescent => \A m \in Months : get_post_count(post_counts, m) = SentInMonth(m)

(***************************************************************************)
(* C3.  Duplicate prevention: no text is transmitted more than once, and a *)
(* call with a text already published returns None without create_tweet.  *)
(***************************************************************************)
C3_NoDuplicate ==
    /\ \A e \in BagToSet(timeline) : SentOfText(e.text) <= 1
    /\ \A p \in Procs :
         (pc[p] = "returned" /\ SentOfText(message[p]) > 0 /\ tweet_id[p] = 0)
            => "create_tweet" \notin StepsRun(p)

(***************************************************************************)
(* C4.  Approval gate.  With require_approval, create_tweet is reached     *)
(* only after the preview was shown and the answer, trimmed and            *)
(* lower-cased, was exactly "y"; any other answer ends the call with None  *)
(* and nothing transmitted.  copilot always requires approval; post skips  *)
(* it exactly when --auto is given.                                        *)
(***************************************************************************)
AnsweredYes(p) ==
    /\ prompted[p]
    /\ answer[p] # NoAnswer
    /\ lower(strip(answer[p])) = <<"y">>

C4_ApprovalGate ==
    \A p \in Procs :
        /\ (require_approval[p]
              /\ (pc[p] \in {"create_tweet", "increment_post_count", "record_posted_tweet"}
                  \/ "create_tweet" \in StepsRun(p)
                  \/ transmitted[p] > 0))
             => AnsweredYes(p)
        /\ (prompted[p] /\ ~AnsweredYes(p))
             => (pc[p] = "returned" /\ result[p] = "None" /\ transmitted[p] = 0
                 /\ "create_tweet" \notin StepsRun(p))
        /\ (~require_approval[p] /\ pc[p] # "idle") => ~prompted[p]
        /\ (command[p] = "copilot" /\ pc[p] \notin {"idle", "exit"}) => require_approval[p]
        /\ (command[p] = "post" /\ pc[p] \notin {"idle", "exit"})
             => (require_approval[p] <=> ~auto[p])

\* the copilot command transmitted a tweet after the answer " Y\n"
C4_Witness ==
    \E p \in Procs :
        /\ command[p] = "copilot"
        /\ transmitted[p] = 1
        /\ answer[p] = <<" ", "Y", "\n">>

(***************************************************************************)
(* C5.  A call that returns None transmitted nothing and left both tables  *)
(* as they were before the call.                                           *)
(***************************************************************************)
C5_NoneMeansNoEffect ==
    \A p \in Procs :
        (pc[p] = "returned" /\ result[p] = "None")
            => /\ transmitted[p] = 0
               /\ post_counts = counts_at_call[p]
               /\ posted_tweets = posted_at_call[p]

(***************************************************************************)
(* C6.  Step ordering.  The steps of a call run in the fixed order         *)
(* validate, quota, duplicate, approval, create_tweet,                     *)
(* increment_post_count, record_posted_tweet (approval left out without    *)
(* require_approval): the user is never prompted for a message that is     *)
(* invalid, over quota or a duplicate, and the counter and the hash table  *)
(* are written only after create_tweet has returned, the counter first.    *)
(***************************************************************************)
StepOrderNoApproval == SelectSeq(StepOrder, LAMBDA x : x # "approval")

IsPrefix(s, t) == Len(s) <= Len(t) /\ s = SubSeq(t, 1, Len(s))

C6_StepOrdering ==
    \A p \in Procs :
        /\ IF require_approval[p]
           THEN IsPrefix(steps[p], StepOrder)
           ELSE IsPrefix(steps[p], StepOrderNoApproval)
        /\ prompted[p]
             => /\ message[p] # <<>>
                /\ \E i \in 1..Len(message[p]) : message[p][i] \notin Whitespace
                /\ Len(message[p]) <= 280
                /\ current_count[p] < RATE_LIMIT_MAX
                /\ get_content_hash(message[p]) \notin DOMAIN posted_at_call[p]
        /\ (pc[p] # "idle" /\ (inc_ok[p] # "-" \/ post_counts # counts_at_call[p]))
             => /\ "create_tweet" \in StepsRun(p)
                /\ tweet_id[p] # 0
                /\ transmitted[p] = 1
        /\ (pc[p] # "idle" /\ (rec_ok[p] # "-" \/ posted_tweets # posted_at_call[p]))
             => /\ inc_ok[p] # "-"
                /\ "increment_post_count" \in StepsRun(p)

\* a call with approval ran all seven steps and wrote both tables
C6_Witness ==
    \E p \in Procs :
        /\ steps[p] = StepOrder
        /\ post_counts # counts_at_call[p]
        /\ posted_tweets # posted_at_call[p]

(***************************************************************************)
(* C7.  Effect of a successful post: when post_tweet returns the response, *)
(* the month's count is one higher than before the call, the other months  *)
(* are unchanged, and posted_tweets holds the rows it held plus exactly    *)
(* one row for the digest of the message.                                  *)
(***************************************************************************)
C7_SuccessEffect ==
    \A p \in Procs :
        (pc[p] = "returned" /\ result[p] = "response")
            => LET m == month_at_call[p]
                   h == get_content_hash(message[p])
               IN  /\ get_post_count(post_counts, m) = get_post_count(counts_at_call[p], m) + 1
                   /\ \A o \in Months \ {m} :
                        get_post_count(post_counts, o) = get_post_count(counts_at_call[p], o)
                   /\ h \notin DOMAIN posted_at_call[p]
                   /\ DOMAIN posted_tweets = DOMAIN posted_at_call[p] \cup {h}
                   /\ \A k \in DOMAIN posted_at_call[p] : posted_tweets[k] = posted_at_call[p][k]

(***************************************************************************)
(* C8.  Per-month quota reset.                                             *)
(*                                                                         *)
(* As claimed (C8_CountedInItsOwnMonth): the posts made in one month never *)
(* count against another month, so that no month's stored count exceeds    *)
(* the tweets transmitted in that month.                                   *)
(*                                                                         *)
(* As amended (C8_PerMonthQuota): get_post_count is 0 for a month without  *)
(* a row; an increment_post_count that returns True creates the row of the *)
(* month current when it runs with count 1, or adds exactly 1 to it, and   *)
(* touches no other row, and one that returns False changes nothing; a     *)
(* month that has not begun has no row, so it starts with the full quota   *)
(* whatever its predecessor reached; the quota check reads the current     *)
(* month's row alone.                                                      *)
(***************************************************************************)
C8_CountedInItsOwnMonth ==
    \A m \in Months : get_post_count(post_counts, m) <= SentInMonth(m)

RowCount(counts, m) == IF m \in DOMAIN counts THEN counts[m] ELSE 0

C8_IncrementStep(p) ==
    (pc[p] = "increment_post_count" /\ pc'[p] # "increment_post_count")
        => IF inc_ok'[p] = "True"
           THEN /\ DOMAIN post_counts' = DOMAIN post_counts \cup {month}
                /\ post_counts'[month] = RowCount(post_counts, month) + 1
                /\ month \notin DOMAIN post_counts => post_counts'[month] = 1
                /\ \A o \in DOMAIN post_counts \ {month} : post_counts'[o] = post_counts[o]
           ELSE post_counts' = post_counts

C8_QuotaStep(p) ==
    (pc[p] = "quota" /\ pc'[p] # "quota" /\ why'[p] # "exception")
        => /\ current_count'[p] = RowCount(post_counts, month)
           /\ month \notin DOMAIN post_counts => (current_count'[p] = 0 /\ why'[p] # "quota")
           /\ why'[p] = "quota" <=> RowCount(post_counts, month) >= RATE_LIMIT_MAX

C8_PerMonthQuota ==
    /\ [](\A m \in Months :
            /\ m > month => m \notin DOMAIN post_counts
            /\ m \in DOMAIN post_counts => post_counts[m] >= 1)
    /\ [][ /\ \A p \in Procs : C8_IncrementStep(p) /\ C8_QuotaStep(p)
           /\ post_counts' # post_counts
                => \E p \in Procs : pc[p] = "increment_post_count"
           /\ month' # month => post_counts' = post_counts ]_vars

\* month 1 reached the ceiling, and a call of month 2 found count 0, passed
\* the quota check and created the row of month 2 with count 1
C8_Witness ==
    \E p \in Procs :
        /\ month = 2
        /\ RowCount(post_counts, 1) = RATE_LIMIT_MAX
        /\ month_at_call[p] = 2
        /\ current_count[p] = 0
        /\ inc_ok[p] = "True"
        /\ RowCount(post_counts, 2) = 1

(***************************************************************************)
(* C9.  The warning threshold never blocks.  The quota step refuses if and *)
(* only if the current month's count is >= RATE_LIMIT_MAX; with            *)
(* RATE_LIMIT_THRESHOLD <= count < RATE_LIMIT_MAX it warns and goes on to  *)
(* the duplicate check, which then decides as it does without a warning.   *)
(***************************************************************************)
C9_QuotaStep(p) ==
    (pc[p] = "quota" /\ pc'[p] # "quota")
        => LET count == RowCount(post_counts, month)
           IN  \/ /\ why'[p] = "exception"
                  /\ pc'[p] = "returned"
               \/ /\ count >= RATE_LIMIT_MAX
                  /\ why'[p] = "quota"
                  /\ result'[p] = "None"
                  /\ pc'[p] = "returned"
               \/ /\ count < RATE_LIMIT_MAX
                  /\ why'[p] = "-"
                  /\ pc'[p] = "duplicate"
                  /\ warned'[p] <=> (RATE_LIMIT_THRESHOLD <= count)

C9_DuplicateStep(p) ==
    (pc[p] = "duplicate" /\ pc'[p] # "duplicate" /\ why'[p] # "exception")
        => IF get_content_hash(message[p]) \in DOMAIN posted_tweets
           THEN why'[p] = "duplicate" /\ pc'[p] = "returned"
           ELSE /\ why'[p] = "-"
                /\ pc'[p] = (IF require_approval[p] THEN "approval" ELSE "create_tweet")

C9_WarningNeverBlocks ==
    [][ \A p \in Procs :
          /\ C9_QuotaStep(p)
          /\ C9_DuplicateStep(p)
          /\ (why'[p] = "quota" /\ why[p] # "quota") => pc[p] = "quota" ]_vars

\* a call that was warned at count = threshold went on and published
C9_Witness ==
    \E p \in Procs :
        /\ warned[p]
        /\ current_count[p] >= RATE_LIMIT_THRESHOLD
        /\ current_count[p] < RATE_LIMIT_MAX
        /\ pc[p] = "returned"
        /\ result[p] = "response"

(***************************************************************************)
(* C10.  generate_tweet returns None (failure, empty answer) or a text of  *)
(* at most 280 characters: a cleaned answer longer than 280 is replaced by *)
(* its first 277 characters and "...".  So post_tweet's length check never *)
(* rejects a generated text.                                               *)
(***************************************************************************)
C10_GeneratedWithinLimit ==
    \A p \in Procs :
        (command[p] \in {"post", "copilot"} /\ pc[p] # "idle")
            => LET ai == ai_response[p]
                   g == generated[p]
                   cleaned == StripChars(StripChars(ai.text, Whitespace), Quotes)
               IN  /\ g.none <=> (ai.failed \/ ai.text = <<>>)
                   /\ ~g.none
                        => /\ Len(g.text) <= 280
                           /\ Len(cleaned) <= 280 => g.text = cleaned
                           /\ Len(cleaned) > 280
                                => g.text = SubSeq(cleaned, 1, 277) \o <<".", ".", ".">>
                   /\ pc[p] = "exit" <=> (g.none \/ g.text = <<>>)
                   /\ pc[p] # "exit"
                        => /\ message[p] = g.text
                           /\ why[p] # "too_long"

\* an answer of more than 280 characters was cut to 277 + "..." and passed
\* the validation of post_tweet
C10_Witness ==
    \E p \in Procs :
        /\ pc[p] = "quota"
        /\ Len(ai_response[p].text) > 280
        /\ Len(message[p]) = 280
        /\ SubSeq(message[p], 278, 280) = <<".", ".", ".">>
        /\ message[p][277] = "b"

(***************************************************************************)
(* C11.  Recording is a sticky, idempotent set insertion, in each of the   *)
(* three tables posted_tweets (keyed by the content's digest),             *)
(* processed_mentions and retweet_log (keyed by the tweet id):             *)
(*  - no call of any function of database.py removes a row or changes the  *)
(*    values stored in it;                                                 *)
(*  - when a record call returns True the key's row is present, so the     *)
(*    lookup of that key finds it then and, rows being kept, ever after;   *)
(*  - a record call on a key that already has its row changes nothing: no  *)
(*    row is added and the values of the first recording stay;             *)
(*  - a record call on a new key that returns True adds exactly that row   *)
(*    with the values handed in;                                           *)
(*  - a record call returns True unless sqlite3.Error was raised, and then *)
(*    it returns False and changes nothing; a lookup that returns says     *)
(*    whether the row is there.                                            *)
(***************************************************************************)
RowsKept(old, new) == \A k \in DOMAIN old : k \in DOMAIN new /\ new[k] = old[k]

\* one record call: the table before and after, the key, the values handed
\* in and what the call returned
SetInsertion(old, new, key, val, ret) ==
    /\ ret \in {"True", "False"}
    /\ ret = "True" => key \in DOMAIN new
    /\ key \in DOMAIN old => new = old
    /\ ret = "False" => new = old
    /\ (key \notin DOMAIN old /\ ret = "True") =>
          /\ DOMAIN new = DOMAIN old \cup {key}
          /\ new[key] = val

C11_RecordStep ==
    /\ RowsKept(posted_tweets, posted_tweets')
    /\ RowsKept(processed_mentions, processed_mentions')
    /\ RowsKept(retweet_log, retweet_log')
    /\ db_call'.fn = "record_posted_tweet" =>
          /\ SetInsertion(posted_tweets, posted_tweets',
                          get_content_hash(db_call'.key), db_call'.val, db_call'.returned)
          /\ db_call'.returned = "True" => has_posted_before(posted_tweets', db_call'.key)
          /\ UNCHANGED <<processed_mentions, retweet_log>>
    /\ db_call'.fn = "mark_mention_processed" =>
          /\ SetInsertion(processed_mentions, processed_mentions',
                          db_call'.key, db_call'.val, db_call'.returned)
          /\ db_call'.returned = "True" =>
                has_processed_mention(processed_mentions', db_call'.key)
          /\ UNCHANGED <<posted_tweets, retweet_log>>
    /\ db_call'.fn = "record_retweet" =>
          /\ SetInsertion(retweet_log, retweet_log',
                          db_call'.key, db_call'.val, db_call'.returned)
          /\ db_call'.returned = "True" => has_retweeted(retweet_log', db_call'.key)
          /\ UNCHANGED <<posted_tweets, processed_mentions>>
    /\ db_call'.fn \notin {"record_posted_tweet", "mark_mention_processed", "record_retweet"} =>
          UNCHANGED <<posted_tweets, processed_mentions, retweet_log>>

\* a lookup that returned tells whether the key's row is in the table
C11_LookupTellsPresence ==
    /\ db_call.fn = "has_posted_before" /\ db_call.returned # "raised" =>
          (db_call.returned = "True") = has_posted_before(posted_tweets, db_call.key)
    /\ db_call.fn = "has_processed_mention" /\ db_call.returned # "raised" =>
          (db_call.returned = "True") = has_processed_mention(processed_mentions, db_call.key)
    /\ db_call.fn = "has_retweeted" /\ db_call.returned # "raised" =>
          (db_call.returned = "True") = has_retweeted(retweet_log, db_call.key)

C11_StickyIdempotentInsertion ==
    []C11_LookupTellsPresence /\ [][C11_RecordStep]_vars

\* a content recorded a second time with another tweet id: the call returned
\* True and the row still holds the first id, while mentions and retweets
\* have been recorded too
C11_Witness ==
    /\ db_call.fn = "record_posted_tweet"
    /\ db_call.returned = "True"
    /\ has_posted_before(posted_tweets, db_call.key)
    /\ posted_tweets[get_content_hash(db_call.key)] # db_call.val
    /\ processed_mentions # EmptyTable
    /\ retweet_log # EmptyTable

(***************************************************************************)
(* C12.  Two CLI processes running post_tweet at the same time on the same *)
(* bot.db, their steps interleaved in any way: no text is transmitted      *)
(* twice and no month sees more than RATE_LIMIT_MAX tweets transmitted.    *)
(***************************************************************************)
C12_ConcurrentQuotaAndDedup ==
    /\ \A e \in BagToSet(timeline) : SentOfText(e.text) <= 1
    /\ \A m \in Months : SentInMonth(m) <= RATE_LIMIT_MAX
====
